---- MODULE Spec2Model ----
(***************************************************************************)
(* A model of the murder-mystery AI service: the per-game Coordinator      *)
(* (GameMasterAgent), its Game State store, the routing graph, the         *)
(* Character Agents (PersonaAgent.invoke) and the chat endpoint that       *)
(* drives them, together with the two-phase Scenario Generator.            *)
(*                                                                         *)
(* Python objects that are shared by reference are modelled by a heap:     *)
(* the agent_states dictionary of a Game State is one heap object, shared  *)
(* by every shallow copy of that Game State.                               *)
(***************************************************************************)
EXTENDS Integers, Sequences, FiniteSets, TLC

VARIABLES
    gamemasters,    \* main.py gamemasters / murder_graphs: game_id -> Coordinator
    game_states,    \* GameMasterAgent.game_states of the registered Coordinator
    heap,           \* agent_states dictionaries, by object reference
    turns,          \* chat requests in flight (suspended at an await)
    pending,        \* quick-start requests suspended at the image await
    nturns,         \* chat turns started so far (also the turn ids)
    ngms,           \* Coordinators built so far (also their identities)
    voice,          \* VoiceService.enabled (set by the environment)
    routed,         \* history: successful turns per game and character
    last,           \* history: the last completed request and its outcome
    gen             \* the generation the Scenario Generator is running

vars == <<gamemasters, game_states, heap, turns, pending, nturns, ngms,
          voice, routed, last, gen>>

serviceVars == <<gamemasters, game_states, heap, turns, pending, nturns,
                 ngms, voice, routed, last>>

----------------------------------------------------------------------------
(* Bounds of the model *)

MaxTurns == 2        \* chat turns started in one behaviour of Spec
MaxSeqTurns == 2     \* chat turns started in one behaviour of SeqSpec
MaxGMs == 2          \* Coordinators built in one behaviour
MaxObjs == 2         \* agent_states objects allocated in one behaviour
MaxInFlight == 2     \* chat requests suspended at the same time
MaxPlayTurns == 12   \* chat turns started in one behaviour of PlaySpec

Games == {"g1", "g2"}

None == "None"       \* Python None, as a value among strings

Absent == [absent |-> TRUE]   \* no object: a key that a dict does not have

----------------------------------------------------------------------------
(* Strings: str.lower() and the substring test `keyword in response_lower` *)

UPPER == "ABCDEFGHIJKLMNOPQRSTUVWXYZ"
LOWER == "abcdefghijklmnopqrstuvwxyz"

LowerChar(c) ==
    IF \E i \in 1..Len(UPPER) : SubSeq(UPPER, i, i) = c
    THEN LET i == CHOOSE j \in 1..Len(UPPER) : SubSeq(UPPER, j, j) = c
         IN  SubSeq(LOWER, i, i)
    ELSE c

RECURSIVE Lower(_)
Lower(s) ==
    IF Len(s) = 0 THEN ""
    ELSE LowerChar(SubSeq(s, 1, 1)) \o Lower(SubSeq(s, 2, Len(s)))

Contains(s, k) ==
    \E i \in 1..(Len(s) - Len(k) + 1) : SubSeq(s, i, i + Len(k) - 1) = k

----------------------------------------------------------------------------
(* Knowledge Packs (scenarios) *)

OFFICE_MURDER_SCENARIO ==
    [name |-> "Der Fall InnoTech",
     murderer |-> "tom",
     personas |-> << [slug |-> "elena", name |-> "Elena Schmidt"],
                     [slug |-> "tom", name |-> "Tom Berger"],
                     [slug |-> "lisa", name |-> "Lisa Hoffmann"],
                     [slug |-> "klaus", name |-> "Klaus Mueller"] >>]

DEFAULT_SCENARIO ==
    [name |-> "Der Fall Villa Sonnenhof",
     murderer |-> "robert",
     personas |-> << [slug |-> "sophie", name |-> "Sophie Berger"],
                     [slug |-> "robert", name |-> "Robert Kleinert"],
                     [slug |-> "thomas", name |-> "Thomas von Lichtenberg"],
                     [slug |-> "isabella", name |-> "Isabella Hartmann"] >>]

Range(f) == {f[i] : i \in DOMAIN f}

Slugs(scenario) == {p.slug : p \in Range(scenario.personas)}

----------------------------------------------------------------------------
(* Floating point: the float values that stress_level takes.  A value is   *)
(* written [t, e]: the double nearest to t/10, plus e units of 1e-17.      *)
(* 0.1 added repeatedly to 0.0 in IEEE-754 doubles gives 0.1, 0.2,         *)
(* 0.30000000000000004, 0.4, 0.5, 0.6, 0.7, 0.7999999999999999,            *)
(* 0.8999999999999999, 0.9999999999999999 and then 1.0999999999999999.     *)

F(t, e) == [t |-> t, e |-> e]

FloatLeq(a, b) == a.t < b.t \/ (a.t = b.t /\ a.e <= b.e)

FloatLess(a, b) == FloatLeq(a, b) /\ a # b

FloatAddTenth(x) ==
    CASE x = F(2, 0) -> F(3, 4)
      [] x = F(3, 4) -> F(4, 0)
      [] x = F(7, 0) -> F(8, -10)
      [] OTHER -> F(x.t + 1, x.e)

FloatMin(a, b) == IF FloatLeq(b, a) THEN b ELSE a

StressAfterUncapped(stress) == FloatAddTenth(stress)

\* min(1.0, agent_state.get("stress_level", 0) + 0.1)
StressAfter(stress) == FloatMin(F(10, 0), FloatAddTenth(stress))

----------------------------------------------------------------------------
(* agents/state.py *)

create_initial_agent_state ==
    [stress_level |-> F(0, 0), lies_told |-> 0, interrogation_count |-> 0,
     last_topics |-> <<>>]

\* The per-character dynamic state built by create_initial_game_state.
InitialAgentStates(scenario) ==
    [slug \in Slugs(scenario) |-> create_initial_agent_state]

\* initialize_game passes self.voice_assignments as the third positional
\* argument, which is the user_message parameter.
create_initial_game_state(game_id, ref, user_message) ==
    [game_id |-> game_id,
     user_message |-> user_message,
     selected_persona |-> "",
     messages |-> <<>>,
     agent_states |-> ref,
     revealed_clues |-> <<>>,
     final_response |-> "",
     responding_agent |-> "",
     detected_clue |-> None]

Message(role, persona_slug, content) ==
    [role |-> role, persona_slug |-> persona_slug, content |-> content]

\* operator.add, the reducer of the messages channel
add(a, b) == a \o b

----------------------------------------------------------------------------
(* agents/persona_agent.py *)

keywords_map(slug) ==
    CASE slug = "tom" -> <<"21:15", "zugangskarte", "sonntag abend",
                           "trophaee", "hand", "schnitt", "geschnitten">>
      [] slug = "lisa" -> <<"e-mail", "diebstahl", "geheimnisse",
                            "streit am freitag", "samstag">>
      [] slug = "klaus" -> <<"gesehen", "21 uhr", "blut", "flur",
                             "tom gesehen">>
      [] slug = "elena" -> <<"investoren", "kontrolle", "streit mit marcus",
                             "finanzen">>
      [] OTHER -> <<>>

_setup_clue_keywords(slug) == keywords_map(slug)

\* f"{self.name} erwähnte '{keyword}'"
FormatClue(name, keyword) == name \o " erwaehnte '" \o keyword \o "'"

_detect_revealed_clueCaseSensitive(agent, response) ==
    LET response_lower == response
        kws == agent.clue_keywords
        hits == {i \in DOMAIN kws : Contains(response_lower, kws[i])}
    IN  IF hits = {} THEN None
        ELSE LET first == CHOOSE i \in hits : \A j \in hits : i <= j
             IN  FormatClue(agent.name, kws[first])

\* PersonaAgent._detect_revealed_clue: the first keyword of the list that
\* the lower-cased response contains
_detect_revealed_clue(agent, response) ==
    LET response_lower == Lower(response)
        kws == agent.clue_keywords
        hits == {i \in DOMAIN kws : Contains(response_lower, kws[i])}
    IN  IF hits = {} THEN None
        ELSE LET first == CHOOSE i \in hits : \A j \in hits : i <= j
             IN  FormatClue(agent.name, kws[first])

\* PersonaAgent.__init__
PersonaAgent(persona_data, voice_id) ==
    [slug |-> persona_data.slug,
     name |-> persona_data.name,
     voice_id |-> voice_id,
     clue_keywords |-> _setup_clue_keywords(persona_data.slug)]

----------------------------------------------------------------------------
(* agents/gamemaster_agent.py *)

\* VoiceService.assign_voices_to_personas: no assignment when the service
\* is disabled, one voice per persona when it is enabled.
assign_voices_to_personas(slug, enabled) == IF enabled THEN "voice" ELSE None

\* The persona_data stored last under a slug (a dict keeps the last write).
PersonaData(scenario, slug) ==
    LET ps == scenario.personas
        i == CHOOSE j \in DOMAIN ps :
                 /\ ps[j].slug = slug
                 /\ \A k \in DOMAIN ps : ps[k].slug = slug => k <= j
    IN  ps[i]

\* GameMasterAgent.__init__: one PersonaAgent per persona slug, and an empty
\* game_states store.  id is the identity of the object.
GameMasterAgent(scenario, id, enabled) ==
    [id |-> id,
     scenario |-> scenario,
     persona_agents |->
        [slug \in Slugs(scenario) |->
            PersonaAgent(PersonaData(scenario, slug),
                         assign_voices_to_personas(slug, enabled))]]

\* GameMasterAgent.router_node
router_node(gm, state) ==
    IF state.selected_persona \notin DOMAIN gm.persona_agents
    THEN "elena"
    ELSE state.selected_persona

\* The state prepare_state_for_agent returns, given the state it fetched or
\* created: request fields set, history replaced by the caller's chat_history
\* (converted entry by entry) followed by the player entry.
ConvertHistory(chat_history) ==
    [i \in DOMAIN chat_history |->
        Message(chat_history[i].role, chat_history[i].persona_slug,
                chat_history[i].content)]

prepare_state_for_agent(state, persona_slug, user_message, chat_history) ==
    [state EXCEPT
        !.user_message = user_message,
        !.selected_persona = persona_slug,
        !.messages = ConvertHistory(chat_history)
                        \o <<Message("user", None, user_message)>>]

----------------------------------------------------------------------------
(* agents/graph.py *)

\* The router node returns the whole state; every key it returns is written
\* back to its channel, and the messages channel accumulates with add.
graph_router_node(state) ==
    [state EXCEPT !.messages = add(state.messages, state.messages)]

route_to_personaDefault(gm, state) == "elena"

\* route_to_persona, the conditional edge out of the router
route_to_persona(gm, state) ==
    LET selected == state.selected_persona
        valid_personas == DOMAIN gm.persona_agents
    IN  IF selected \notin valid_personas THEN "elena" ELSE selected

\* persona_routes: the nodes the conditional edge can reach
persona_routes(gm) == DOMAIN gm.persona_agents

----------------------------------------------------------------------------
(* PersonaAgent._build_system_prompt: the stress modifier.  The text is    *)
(* modelled by the instructions it is made of, in the order they are       *)
(* appended; the instructions that quote a value carry it.                 *)

Nervous(stress) == [instruction |-> "nervous", stress_level |-> stress]

VeryStressed == [instruction |-> "very stressed"]

Tired(interrogation_count) ==
    [instruction |-> "tired", interrogation_count |-> interrogation_count]

_build_system_promptExclusive(slug, agent_states) ==
    LET known == slug \in DOMAIN agent_states
        stress == IF known THEN agent_states[slug].stress_level
                  ELSE F(0, 0)
        interrogation_count ==
            IF known THEN agent_states[slug].interrogation_count ELSE 0
    IN  IF FloatLess(F(6, 0), stress) THEN <<VeryStressed>>
        ELSE IF FloatLess(F(3, 0), stress) THEN <<Nervous(stress)>>
        ELSE IF interrogation_count > 5 THEN <<Tired(interrogation_count)>>
        ELSE <<>>

\* stress_modifier: three ifs in a row, each appending to the text; an
\* agent without an entry in agent_states reads the defaults 0.0 and 0.
_build_system_prompt(slug, agent_states) ==
    LET known == slug \in DOMAIN agent_states
        stress == IF known THEN agent_states[slug].stress_level
                  ELSE F(0, 0)
        interrogation_count ==
            IF known THEN agent_states[slug].interrogation_count ELSE 0
    IN  (IF FloatLess(F(3, 0), stress) THEN <<Nervous(stress)>> ELSE <<>>)
        \o (IF FloatLess(F(6, 0), stress) THEN <<VeryStressed>> ELSE <<>>)
        \o (IF interrogation_count > 5
            THEN <<Tired(interrogation_count)>> ELSE <<>>)

----------------------------------------------------------------------------
(* PersonaAgent.invoke, before the model call: the history it passes on *)

\* for msg in state.get("messages", [])[-10:]
history_window == 10

HumanMessage(content) == [type |-> "human", content |-> content]

AIMessage(content) == [type |-> "ai", content |-> content]

_get_persona_historyUnfiltered(slug, state) ==
    LET n == Len(state.messages)
        recent == SubSeq(state.messages,
                         IF n > history_window THEN n - history_window + 1
                         ELSE 1, n)
    IN  [i \in DOMAIN recent |->
            IF recent[i].persona_slug = None
            THEN HumanMessage(recent[i].content)
            ELSE AIMessage(recent[i].content)]

\* PersonaAgent._get_persona_history: of the last ten messages of the
\* state, those without persona_slug and those of this persona
_get_persona_history(slug, state) ==
    LET n == Len(state.messages)
        recent == SubSeq(state.messages,
                         IF n > history_window THEN n - history_window + 1
                         ELSE 1, n)
        kept == SelectSeq(recent,
                          LAMBDA msg : \/ msg.persona_slug = None
                                       \/ msg.persona_slug = slug)
    IN  [i \in DOMAIN kept |->
            IF kept[i].persona_slug = None
            THEN HumanMessage(kept[i].content)
            ELSE AIMessage(kept[i].content)]

----------------------------------------------------------------------------
(* PersonaAgent.invoke, after the model call (and the voice call) returned *)

InvokeAgentStatesCountOnce(agent_states, slug) ==
    [agent_states EXCEPT
        ![slug] = [@ EXCEPT
            !.stress_level = StressAfter(@),
            !.interrogation_count = 1]]

\* The agent_states object after the agent updated its own entry in place.
InvokeAgentStates(agent_states, slug) ==
    [agent_states EXCEPT
        ![slug] = [@ EXCEPT
            !.stress_level = StressAfter(@),
            !.interrogation_count = @ + 1]]

InvokeRevealedCluesAlways(revealed_clues, detected_clue) ==
    IF detected_clue # None
    THEN revealed_clues \o <<detected_clue>>
    ELSE revealed_clues

\* if detected_clue and detected_clue not in state.get("revealed_clues", [])
InvokeRevealedClues(revealed_clues, detected_clue) ==
    IF detected_clue # None /\ detected_clue \notin Range(revealed_clues)
    THEN revealed_clues \o <<detected_clue>>
    ELSE revealed_clues

InvokeResultStickyClue(agent, state, response_text, audio_base64) ==
    LET detected_clue == _detect_revealed_clue(agent, response_text)
        new_message == [role |-> "assistant", persona_slug |-> agent.slug,
                        content |-> response_text,
                        audio_base64 |-> audio_base64,
                        voice_id |-> agent.voice_id]
    IN  [state EXCEPT
            !.revealed_clues = InvokeRevealedClues(@, detected_clue),
            !.final_response = response_text,
            !.responding_agent = agent.slug,
            !.detected_clue = IF detected_clue = None THEN @
                              ELSE detected_clue,
            !.messages = add(@, <<new_message>>)]

\* The state the graph holds when the agent node has returned: the node's
\* messages = [new_message] is accumulated onto the channel.
InvokeResult(agent, state, response_text, audio_base64) ==
    LET detected_clue == _detect_revealed_clue(agent, response_text)
        new_message == [role |-> "assistant", persona_slug |-> agent.slug,
                        content |-> response_text,
                        audio_base64 |-> audio_base64,
                        voice_id |-> agent.voice_id]
    IN  [state EXCEPT
            !.revealed_clues = InvokeRevealedClues(@, detected_clue),
            !.final_response = response_text,
            !.responding_agent = agent.slug,
            !.detected_clue = detected_clue,
            !.messages = add(@, <<new_message>>)]

----------------------------------------------------------------------------
(* Inputs of the requests.  The interleaved service (Spec) draws from the  *)
(* small sets, the one-game specifications from the richer ones.           *)

ChatSlugs == {"tom", "ghost"}

SeqSlugs == {"tom", "klaus", "robert", "ghost"}

PlaySlugs == {"tom", "klaus"}

UserMessages == {"Wo waren Sie?"}

Replies == {"Nein.", "Um 21:15 war ich dort."}

PlayReplies == {"Um 21:15 war ich dort."}

SeqReplies ==
    {"Nein.", "Um 21:15 war ich dort.", "Im Flur war BLUT."}

Transcript ==
    << [role |-> "user", persona_slug |-> None, content |-> "Hallo"],
       [role |-> "assistant", persona_slug |-> "klaus", content |-> "Nein."] >>

\* The history the service holds for the game, as a caller can send it back.
StoredHistory(g) ==
    IF game_states[g] = Absent THEN <<>>
    ELSE [i \in DOMAIN game_states[g].messages |->
            [role |-> game_states[g].messages[i].role,
             persona_slug |-> game_states[g].messages[i].persona_slug,
             content |-> game_states[g].messages[i].content]]

\* chat_history as the caller sends it in the interleaved service: nothing
Histories == {<<>>}

\* chat_history as the caller may send it: nothing, a transcript of its own,
\* or the history the service holds.
SeqHistories(g) == {<<>>, Transcript, StoredHistory(g)}

----------------------------------------------------------------------------
(* History variables *)

NoLast ==
    [op |-> "none", g |-> None, slug |-> None, known |-> FALSE, status |-> 0,
     turn |-> 0, before |-> Absent, request |-> Absent, images |-> <<>>]

\* The stored Game State of a game with its agent_states object read out.
StoreView(g) ==
    IF game_states[g] = Absent THEN Absent
    ELSE [state |-> game_states[g],
          agents |-> heap[game_states[g].agent_states]]

NoRouted(gm) == [slug \in DOMAIN gm.persona_agents |-> 0]

----------------------------------------------------------------------------
(* The service: main.py *)

\* The service after start-up: no Coordinator, no game, no request.
Started ==
    /\ gamemasters = [g \in Games |-> Absent]
    /\ game_states = [g \in Games |-> Absent]
    /\ heap = <<>>
    /\ turns = {}
    /\ pending = {}
    /\ nturns = 0
    /\ ngms = 0
    /\ routed = [g \in Games |-> Absent]
    /\ last = NoLast
    /\ gen = Absent

\* ELEVENLABS_API_KEY may be set or not: the Coordinator has a voice service
\* or none.
Init == Started /\ voice \in BOOLEAN

\* The service started without ELEVENLABS_API_KEY
InitSilent == Started /\ voice = FALSE

\* gamemasters[game_id] = GameMasterAgent(scenario); murder_graphs[game_id] =
\* create_murder_mystery_graph(gamemaster).  The new Coordinator has an empty
\* game_states store.
Register(g, scenario) ==
    /\ ngms' = ngms + 1
    /\ gamemasters' = [gamemasters EXCEPT
                          ![g] = GameMasterAgent(scenario, ngms + 1, voice)]
    /\ game_states' = [game_states EXCEPT ![g] = Absent]
    /\ routed' = [routed EXCEPT ![g] = Absent]

NewAgentStatesShared == IF heap = <<>> THEN Len(heap) + 1 ELSE Len(heap)

\* The reference of the agent_states dictionary that
\* create_initial_game_state builds: a new object on every call.
NewAgentStates == Len(heap) + 1

initialize_gameKeepExisting(g) ==
    /\ heap' = Append(heap, InitialAgentStates(gamemasters[g].scenario))
    /\ game_states' = IF game_states[g] = Absent
                      THEN [game_states EXCEPT
                              ![g] = create_initial_game_state(g,
                                        NewAgentStates, "voice_assignments")]
                      ELSE game_states
    /\ routed' = [routed EXCEPT ![g] = NoRouted(gamemasters[g])]

\* GameMasterAgent.initialize_game on the registered Coordinator of g
initialize_game(g) ==
    /\ heap' = Append(heap, InitialAgentStates(gamemasters[g].scenario))
    /\ game_states' = [game_states EXCEPT
          ![g] = create_initial_game_state(g, NewAgentStates,
                                           "voice_assignments")]
    /\ routed' = [routed EXCEPT ![g] = NoRouted(gamemasters[g])]

\* POST /scenario/default (use_default_scenario)
UseDefaultScenario(g) ==
    /\ Register(g, OFFICE_MURDER_SCENARIO)
    /\ UNCHANGED <<heap, turns, pending, nturns, voice, last, gen>>

\* One call of ImageGenerator.generate_crime_scene_images (ImageCalls; the
\* call when GOOGLE_GEMINI_API_KEY is not set is ImageCallDisabled): whether
\* the generator is configured, whether building the prompts or the gather
\* raises, and what each of the three image requests comes back with
\* (_generate_single_image returns None when the request fails or returns
\* no image).
ImageCallDisabled ==
    [enabled |-> FALSE, raised |-> FALSE, results |-> [i \in 1..3 |-> None]]

ImageCalls ==
    {ImageCallDisabled, [ImageCallDisabled EXCEPT !.enabled = TRUE,
                                                  !.raised = TRUE]}
    \cup [enabled : {TRUE}, raised : {FALSE},
          results : [1..3 -> {"data:image/png;base64", None}]]

\* _generate_images_parallel: the failures are filtered out
_generate_images_parallel(results) ==
    SelectSeq(results, LAMBDA result : result # None)

\* What stands for an exception that leaves the image generator
Raised == <<"Exception">>

generate_crime_scene_imagesUncaught(call) ==
    IF ~call.enabled THEN <<>>
    ELSE IF call.raised THEN Raised
    ELSE _generate_images_parallel(call.results)

\* ImageGenerator.generate_crime_scene_images: [] when the generator is not
\* configured and when anything raises
generate_crime_scene_images(call) ==
    IF ~call.enabled THEN <<>>
    ELSE IF call.raised THEN <<>>
    ELSE _generate_images_parallel(call.results)

\* What a handler that awaits the image generator answers: the except
\* branch of the handler turns an exception into 500.
ImageResponse(op, g, call) ==
    LET crime_scene_images == generate_crime_scene_images(call)
    IN  IF crime_scene_images = Raised
        THEN [NoLast EXCEPT !.op = op, !.g = g, !.status = 500,
                            !.request = call]
        ELSE [NoLast EXCEPT !.op = op, !.g = g, !.status = 200,
                            !.request = call,
                            !.images = crime_scene_images]

\* POST /scenario/quick-start, up to the await of the image generator
QuickStartBegin(g) ==
    /\ Register(g, DEFAULT_SCENARIO)
    /\ pending' = pending \cup {[g |-> g, gm |-> ngms + 1]}
    /\ UNCHANGED <<heap, turns, nturns, voice, last, gen>>

\* POST /scenario/quick-start, after the await: new_gamemaster.get_game_info
\* initializes the game if new_gamemaster holds no state for it.  A
\* Coordinator that has been replaced meanwhile is no longer reachable.
QuickStartEnd(q, call) ==
    /\ q \in pending
    /\ pending' = pending \ {q}
    /\ last' = ImageResponse("quick-start", q.g, call)
    /\ IF last'.status = 200 /\ gamemasters[q.g].id = q.gm
          /\ game_states[q.g] = Absent
       THEN Len(heap) < MaxObjs /\ initialize_game(q.g)
       ELSE UNCHANGED <<heap, game_states, routed>>
    /\ UNCHANGED <<gamemasters, turns, nturns, ngms, voice, gen>>

\* POST /game/start (start_game); for a game without a Coordinator the
\* request is answered 404 and nothing changes.
StartGame(g) ==
    /\ gamemasters[g] # Absent
    /\ Len(heap) < MaxObjs
    /\ initialize_game(g)
    /\ UNCHANGED <<gamemasters, turns, pending, nturns, ngms, voice, last,
                   gen>>

----------------------------------------------------------------------------
(* POST /chat (chat_with_persona), one action per stretch between awaits *)

IsValidPersonaAny(gm, persona_slug) == TRUE

\* request.persona_slug in list(gamemaster.persona_agents.keys())
IsValidPersona(gm, persona_slug) == persona_slug \in DOMAIN gm.persona_agents

Request(persona_slug, user_message, chat_history) ==
    [persona_slug |-> persona_slug, message |-> user_message,
     chat_history |-> chat_history]

\* No Coordinator or graph is registered for the game: 404.
ChatUnknownGame(g, persona_slug) ==
    /\ gamemasters[g] = Absent
    /\ last' = [NoLast EXCEPT !.op = "chat", !.g = g, !.status = 404]
    /\ UNCHANGED <<gamemasters, game_states, heap, turns, pending, nturns,
                   ngms, voice, routed, gen>>

\* The persona is validated before anything else is done: 400.
ChatInvalidPersona(g, persona_slug) ==
    /\ gamemasters[g] # Absent
    /\ ~IsValidPersona(gamemasters[g], persona_slug)
    /\ last' = [NoLast EXCEPT
                   !.op = "chat", !.g = g,
                   !.known = persona_slug \in Slugs(gamemasters[g].scenario),
                   !.status = 400]
    /\ UNCHANGED <<gamemasters, game_states, heap, turns, pending, nturns,
                   ngms, voice, routed, gen>>

\* prepare_state_for_agent, and the graph run is started.  When the
\* Coordinator holds no state for the game, the state it creates and stores
\* is the very object that is then filled in.
ChatPrepare(g, persona_slug, user_message, chat_history) ==
    /\ gamemasters[g] # Absent
    /\ IsValidPersona(gamemasters[g], persona_slug)
    /\ Cardinality(turns) < MaxInFlight
    /\ LET gm == gamemasters[g]
           created == game_states[g] = Absent
           fetched == IF created
                      THEN create_initial_game_state(g, NewAgentStates,
                                                     "voice_assignments")
                      ELSE game_states[g]
           state == prepare_state_for_agent(fetched, persona_slug,
                                            user_message, chat_history)
       IN  /\ created => Len(heap) < MaxObjs
           /\ IF created
              THEN /\ heap' = Append(heap, InitialAgentStates(gm.scenario))
                   /\ game_states' = [game_states EXCEPT ![g] = state]
                   /\ routed' = [routed EXCEPT ![g] = NoRouted(gm)]
              ELSE UNCHANGED <<heap, game_states, routed>>
           /\ turns' = turns \cup
                 {[id |-> nturns + 1, g |-> g, gm |-> gm, stage |-> "graph",
                   state |-> state, target |-> None, reply |-> None,
                   history |-> <<>>, stress_modifier |-> <<>>,
                   before |-> StoreView(g),
                   known |-> persona_slug \in Slugs(gm.scenario),
                   request |-> Request(persona_slug, user_message,
                                       chat_history)]}
    /\ nturns' = nturns + 1
    /\ UNCHANGED <<gamemasters, pending, ngms, voice, last, gen>>

\* The outcome of a request, as the handler returns it.
Outcome(t, status) ==
    [NoLast EXCEPT !.op = "chat", !.g = t.g, !.slug = t.request.persona_slug,
                   !.known = t.known, !.status = status, !.turn = t.id,
                   !.before = t.before, !.request = t.request]

\* The graph runs the router node and the conditional edge, and the agent
\* it routes to builds the messages for the model (history: what
\* _get_persona_history returns) and awaits the model.  An edge to a node
\* the graph does not have makes the run fail: 500.
GraphRoute(t) ==
    /\ t \in turns
    /\ t.stage = "graph"
    /\ LET state == graph_router_node(t.state)
           target == route_to_persona(t.gm, state)
       IN  IF target \in persona_routes(t.gm)
           THEN /\ turns' = (turns \ {t}) \cup
                       {[t EXCEPT !.stage = "llm", !.state = state,
                                  !.target = target,
                                  !.stress_modifier =
                                     _build_system_prompt(
                                        target, heap[state.agent_states]),
                                  !.history =
                                     _get_persona_history(target, state)]}
                /\ last' = last
           ELSE /\ turns' = turns \ {t}
                /\ last' = Outcome(t, 500)
    /\ UNCHANGED <<gamemasters, game_states, heap, pending, nturns, ngms,
                   voice, routed, gen>>

InvokePostStressesAll(t, response_text, audio_base64) ==
    LET agent == t.gm.persona_agents[t.target]
        ref == t.state.agent_states
    IN  /\ heap' = [heap EXCEPT ![ref] =
                      [slug \in DOMAIN @ |->
                          InvokeAgentStates(@, slug)[slug]]]
        /\ turns' = (turns \ {t}) \cup
              {[t EXCEPT !.stage = "post", !.reply = response_text,
                         !.state = InvokeResult(agent, t.state, response_text,
                                                audio_base64)]}

\* The agent's post-processing, from the reply to the return of the node.
InvokePost(t, response_text, audio_base64) ==
    LET agent == t.gm.persona_agents[t.target]
        ref == t.state.agent_states
    IN  /\ heap' = [heap EXCEPT ![ref] = InvokeAgentStates(@, agent.slug)]
        /\ turns' = (turns \ {t}) \cup
              {[t EXCEPT !.stage = "post", !.reply = response_text,
                         !.state = InvokeResult(agent, t.state, response_text,
                                                audio_base64)]}

LLMReturnToRouter(t, response_text) ==
    /\ t \in turns
    /\ t.stage = "llm"
    /\ turns' = (turns \ {t}) \cup
          {[t EXCEPT !.stage = "graph", !.reply = response_text]}
    /\ heap' = heap
    /\ UNCHANGED <<gamemasters, game_states, pending, nturns, ngms, voice,
                   routed, last, gen>>

\* await self.llm.ainvoke(messages) returns a reply.
LLMReturn(t, response_text) ==
    /\ t \in turns
    /\ t.stage = "llm"
    /\ IF t.gm.persona_agents[t.target].voice_id # None
       THEN /\ turns' = (turns \ {t}) \cup
                   {[t EXCEPT !.stage = "voice", !.reply = response_text]}
            /\ heap' = heap
       ELSE InvokePost(t, response_text, None)
    /\ UNCHANGED <<gamemasters, game_states, pending, nturns, ngms, voice,
                   routed, last, gen>>

\* await self.llm.ainvoke(messages) raises: nothing catches it before the
\* handler, which answers 500.
LLMFail(t) ==
    /\ t \in turns
    /\ t.stage = "llm"
    /\ turns' = turns \ {t}
    /\ last' = Outcome(t, 500)
    /\ UNCHANGED <<gamemasters, game_states, heap, pending, nturns, ngms,
                   voice, routed, gen>>

VoiceReturnFatal(t, audio_base64) ==
    /\ t \in turns
    /\ t.stage = "voice"
    /\ IF audio_base64 = None
       THEN /\ turns' = turns \ {t}
            /\ last' = Outcome(t, 500)
            /\ heap' = heap
       ELSE InvokePost(t, t.reply, audio_base64) /\ last' = last
    /\ UNCHANGED <<gamemasters, game_states, pending, nturns, ngms, voice,
                   routed, gen>>

\* await self.voice_service.text_to_speech(...) returns audio, or None; an
\* exception is caught in invoke and leaves audio_base64 = None.
VoiceReturn(t, audio_base64) ==
    /\ t \in turns
    /\ t.stage = "voice"
    /\ InvokePost(t, t.reply, audio_base64)
    /\ UNCHANGED <<gamemasters, game_states, pending, nturns, ngms, voice,
                   routed, last, gen>>

\* gamemaster.update_game_state(request.game_id, final_state), on the
\* Coordinator the handler fetched when the request arrived, and the answer.
ChatComplete(t) ==
    /\ t \in turns
    /\ t.stage = "post"
    /\ turns' = turns \ {t}
    /\ IF gamemasters[t.g].id = t.gm.id
       THEN /\ game_states' = [game_states EXCEPT ![t.g] = t.state]
            /\ routed' = [routed EXCEPT ![t.g][t.request.persona_slug] = @ + 1]
       ELSE UNCHANGED <<game_states, routed>>
    /\ last' = Outcome(t, 200)
    /\ UNCHANGED <<gamemasters, heap, pending, nturns, ngms, voice, gen>>

----------------------------------------------------------------------------
(* The service, requests of all games interleaved at their awaits (the    *)
(* voice service is not configured, so a turn awaits the model only).      *)

Next ==
    \/ \E g \in Games : ngms < MaxGMs /\ UseDefaultScenario(g)
    \/ \E g \in Games : ngms < MaxGMs /\ QuickStartBegin(g)
    \/ \E q \in pending : QuickStartEnd(q, ImageCallDisabled)
    \/ \E g \in Games : StartGame(g)
    \/ \E g \in Games, p \in ChatSlugs : ChatUnknownGame(g, p)
    \/ \E g \in Games, p \in ChatSlugs : ChatInvalidPersona(g, p)
    \/ \E g \in Games, p \in ChatSlugs, m \in UserMessages, h \in Histories :
          nturns < MaxTurns /\ ChatPrepare(g, p, m, h)
    \/ \E t \in turns : GraphRoute(t)
    \/ \E t \in turns, r \in Replies : LLMReturn(t, r)
    \/ \E t \in turns : LLMFail(t)
    \/ \E t \in turns : ChatComplete(t)

Spec == InitSilent /\ [][Next]_vars

----------------------------------------------------------------------------
(* One game, its requests one at a time: a request is accepted only when   *)
(* no other request is suspended.                                          *)

Idle == turns = {} /\ pending = {}

SeqNext ==
    \/ Idle /\ ngms < MaxGMs /\ UseDefaultScenario("g1")
    \/ Idle /\ ngms < MaxGMs /\ QuickStartBegin("g1")
    \/ \E q \in pending : QuickStartEnd(q, ImageCallDisabled)
    \/ Idle /\ StartGame("g1")
    \/ \E p \in SeqSlugs : Idle /\ ChatUnknownGame("g1", p)
    \/ \E p \in SeqSlugs : Idle /\ ChatInvalidPersona("g1", p)
    \/ \E p \in SeqSlugs, m \in UserMessages, h \in SeqHistories("g1") :
          Idle /\ nturns < MaxSeqTurns /\ ChatPrepare("g1", p, m, h)
    \/ \E t \in turns : GraphRoute(t)
    \/ \E t \in turns, r \in SeqReplies : LLMReturn(t, r)
    \/ \E t \in turns : LLMFail(t)
    \/ \E t \in turns, a \in {"audio", None} : VoiceReturn(t, a)
    \/ \E t \in turns : ChatComplete(t)

SeqSpec == Init /\ [][SeqNext]_vars

----------------------------------------------------------------------------
(* One game played for many turns: the game is set up once, and then chat  *)
(* turns only, one after the other.                                        *)

PlayNext ==
    \/ ngms = 0 /\ UseDefaultScenario("g1")
    \/ game_states["g1"] = Absent /\ StartGame("g1")
    \/ \E p \in PlaySlugs, m \in UserMessages :
          turns = {} /\ nturns < MaxPlayTurns /\ ChatPrepare("g1", p, m, <<>>)
    \/ \E t \in turns : GraphRoute(t)
    \/ \E t \in turns, r \in PlayReplies : LLMReturn(t, r)
    \/ \E t \in turns : LLMFail(t)
    \/ \E t \in turns, a \in {"audio", None} : VoiceReturn(t, a)
    \/ \E t \in turns : ChatComplete(t)

PlaySpec == Init /\ [][PlayNext]_vars

----------------------------------------------------------------------------
(* Properties of the stored Game State *)

\* The agent_states of the Game State stored for game g
StoredAgents(g) == heap[game_states[g].agent_states]

Stored(g) == game_states[g] # Absent

\* C1: over every sequence of chat turns against one game, each character's
\* stress_level lies in [0, 1] in every stored Game State, and it does not
\* decrease from one stored Game State to the next.
C1_StressMonotoneBounded ==
    /\ [](\A g \in Games : Stored(g) =>
            \A slug \in DOMAIN StoredAgents(g) :
                /\ FloatLeq(F(0, 0), StoredAgents(g)[slug].stress_level)
                /\ FloatLeq(StoredAgents(g)[slug].stress_level, F(10, 0)))
    /\ [][\A g \in Games : (Stored(g) /\ Stored(g)') =>
            \A slug \in DOMAIN StoredAgents(g) :
                FloatLeq(StoredAgents(g)[slug].stress_level,
                         StoredAgents(g)'[slug].stress_level)]_vars

\* A character questioned so often that the cap has cut the sum off.
C1_Witness ==
    /\ Stored("g1")
    /\ StoredAgents("g1")["tom"].interrogation_count >= 11
    /\ StoredAgents("g1")["tom"].stress_level = F(10, 0)

\* C2: when no turn of a game is in flight, each character's
\* interrogation_count in the stored Game State is the number of successful
\* turns that named that character.
C2_InterrogationCountIsRouted ==
    \A g \in Games :
        (Stored(g) /\ \A t \in turns : t.g # g) =>
            \A slug \in DOMAIN StoredAgents(g) :
                StoredAgents(g)[slug].interrogation_count = routed[g][slug]

\* Several turns to two characters have succeeded, and one has failed.
C2_Witness ==
    /\ turns = {}
    /\ Stored("g1")
    /\ routed["g1"]["tom"] >= 2
    /\ routed["g1"]["klaus"] >= 1
    /\ last.op = "chat" /\ last.status = 500
    /\ StoredAgents("g1")["tom"].interrogation_count >= 2

NoDup(seq) == \A i, j \in DOMAIN seq : seq[i] = seq[j] => i = j

IsPrefix(a, b) == Len(a) <= Len(b) /\ SubSeq(b, 1, Len(a)) = a

\* The step in which turn t stores its final state and answers 200
Completes(t) ==
    /\ t \in turns
    /\ t.stage = "post"
    /\ turns' = turns \ {t}
    /\ last'.turn = t.id /\ last'.status = 200

\* The step in which the model call of turn t fails and the handler answers
Fails(t) ==
    /\ t \in turns
    /\ t.stage = "llm"
    /\ turns' = turns \ {t}
    /\ last'.turn = t.id /\ last'.status = 500

\* The history stored for the game of turn t when the turn began
HistoryBefore(t) ==
    IF t.before = Absent THEN <<>> ELSE t.before.state.messages

\* C3: revealed_clues never holds the same clue string twice, in the store
\* and in a turn in flight; and a turn whose reply triggers a clue string
\* that was in revealed_clues when the turn began stores revealed_clues as it
\* was.
C3_CluesNoDuplicates ==
    /\ [](/\ \A g \in Games : Stored(g) => NoDup(game_states[g].revealed_clues)
          /\ \A t \in turns : NoDup(t.state.revealed_clues))
    /\ [][\A t \in turns :
            (/\ Completes(t)
             /\ t.before # Absent
             /\ t.state.detected_clue # None
             /\ t.state.detected_clue \in Range(t.before.state.revealed_clues))
            => game_states'[t.g].revealed_clues
                  = t.before.state.revealed_clues]_vars

\* A turn has completed whose reply triggered a clue that was revealed before.
C3_Witness ==
    /\ last.op = "chat" /\ last.status = 200
    /\ last.before # Absent
    /\ Stored(last.g)
    /\ game_states[last.g].detected_clue # None
    /\ game_states[last.g].detected_clue
          \in Range(last.before.state.revealed_clues)
    /\ game_states[last.g].revealed_clues = last.before.state.revealed_clues

\* C4: a successful full turn stores a history that is the history stored
\* when the turn began, followed by one player entry and one character
\* entry, and so is exactly two entries longer.
C4_TurnAddsTwoEntries ==
    [][\A t \in turns : Completes(t) =>
          LET before == HistoryBefore(t)
              after == game_states'[t.g].messages
              n == Len(before)
          IN  /\ Len(after) = n + 2
              /\ SubSeq(after, 1, n) = before
              /\ after[n + 1].role = "user"
              /\ after[n + 1].content = t.request.message
              /\ after[n + 2].role = "assistant"
              /\ after[n + 2].persona_slug = t.request.persona_slug]_vars

\* C5: a chat turn leaves the history stored before it as a prefix of the
\* history stored after it, whatever chat_history the caller sends.
C5_HistoryAppendOnly ==
    [][\A g \in Games :
          (turns' # turns /\ Stored(g) /\ Stored(g)') =>
              IsPrefix(game_states[g].messages, game_states'[g].messages)]_vars

\* C7: when the model call of a turn fails, the store holds for the game
\* what it held when the turn began (nothing, if it held nothing).
C7_FailedTurnLeavesStore ==
    [][\A t \in turns : Fails(t) => StoreView(t.g)' = t.before]_vars

----------------------------------------------------------------------------
(* Properties of the interleaved service *)

\* C6: a chat request that names a character the Coordinator of the game
\* does not have is answered with the invalid-persona error (400) and is
\* never prepared or routed, and the store, the Coordinators and the turns
\* in flight are unchanged by it.
C6_UnknownCharacterRejected ==
    /\ [](\A t \in turns : t.known)
    /\ [][(/\ last' # last
           /\ last'.op = "chat"
           /\ last'.status # 404
           /\ ~last'.known)
          => /\ last'.status = 400
             /\ UNCHANGED <<gamemasters, game_states, heap, turns, routed>>]_vars

\* A request naming an unknown character was rejected for a game that holds
\* a stored Game State.
C6_Witness ==
    /\ last.op = "chat" /\ last.status = 400 /\ ~last.known
    /\ Stored(last.g)

\* C8: at most one turn of a game is in flight at any time.
C8_TurnsSequential ==
    \A t1, t2 \in turns : t1.g = t2.g => t1 = t2

\* What the service holds for game g: its Coordinator, its stored Game State
\* with the agent states, its turns in flight with theirs.
GameView(g) ==
    [gm |-> gamemasters[g],
     store |-> StoreView(g),
     inflight |-> {<<t, heap[t.state.agent_states]>> :
                      t \in {u \in turns : u.g = g}}]

\* The step is a step of a chat request on game g.
ChatStepOn(g) ==
    \/ \E t \in (turns \cup turns') \ (turns \cap turns') : t.g = g
    \/ last' # last /\ last'.op = "chat" /\ last'.g = g

\* C9: a step of a chat turn on one game leaves what the service holds for
\* every other game as it was.
C9_GamesIndependent ==
    [][\A g \in Games : ChatStepOn(g) =>
          \A g2 \in Games \ {g} : GameView(g2)' = GameView(g2)]_vars

\* A turn on g1 began and completed while a turn on g2 was in flight.
C9_Witness ==
    /\ last.op = "chat" /\ last.g = "g1" /\ last.status = 200
    /\ Stored("g1") /\ Stored("g2")
    /\ \E t \in turns : t.g = "g2" /\ t.stage = "llm" /\ t.id < last.turn

----------------------------------------------------------------------------
(* services/scenario_generator.py: the two-phase Scenario Generator.  gen  *)
(* is the one generation in progress, or Absent.                           *)

max_retries == 2     \* generate_async(max_retries: int = 2)

min_length == 4      \* BaseScenarioModel.persona_blueprints min_length

MaxBlueprints == 5   \* blueprints in one Phase 1 output of the model

Pool == <<"anna", "ben", "cara", "dirk", "emil", "finn">>

\* Blueprint slugs as the model may return them: too few, enough, and with
\* one slug repeated.
BlueprintLists ==
    UNION {{SubSeq(Pool, 1, n)} \cup
           {[SubSeq(Pool, 1, n) EXCEPT ![k] = "anna"] : k \in 2..n} :
              n \in 3..MaxBlueprints}

Murderers == {"ben", "zoe"}

\* The positions of the blueprints that the model flags is_murderer: none,
\* one, or two.
MurdererFlags == {{}, {2}, {1, 2}}

\* PersonaBlueprintModel
PersonaBlueprintModel(slug, is_murderer) ==
    [slug |-> slug,
     name |-> "Name of " \o slug,
     role |-> "Role of " \o slug,
     public_description |-> "About " \o slug,
     is_murderer |-> is_murderer]

\* Phase 1 outputs of the model, before BaseScenarioModel validates them
BaseOutputs ==
    {[persona_blueprints |->
         [i \in DOMAIN b |-> PersonaBlueprintModel(b[i], i \in k)],
      murderer |-> m] :
        b \in BlueprintLists, m \in Murderers, k \in MurdererFlags}

\* with_structured_output(BaseScenarioModel): the output is accepted only
\* if it has min_length blueprints.
BaseScenarioModel(out) == Len(out.persona_blueprints) >= min_length

\* PersonaModel as the Phase 2 call returns it for a blueprint: it repeats
\* the blueprint's fields, or it has altered them.
PersonaModel(blueprint, altered) ==
    IF altered
    THEN [slug |-> "x", name |-> "Mr X", role |-> "Nobody",
          public_description |-> "Unknown",
          private_knowledge |-> "Secrets of " \o blueprint.slug]
    ELSE [slug |-> blueprint.slug, name |-> blueprint.name,
          role |-> blueprint.role,
          public_description |-> blueprint.public_description,
          private_knowledge |-> "Secrets of " \o blueprint.slug]

PersonaFromBlueprintKeepName(blueprint, persona) ==
    [persona EXCEPT !.slug = blueprint.slug,
                    !.role = blueprint.role,
                    !.public_description = blueprint.public_description]

\* _generate_single_persona: the persona the model returned, with slug,
\* name, role and public_description overridden from the blueprint.
PersonaFromBlueprint(blueprint, persona) ==
    [persona EXCEPT !.slug = blueprint.slug,
                    !.name = blueprint.name,
                    !.role = blueprint.role,
                    !.public_description = blueprint.public_description]

\* scenario_dict["_metrics"] = {...}, attached after validation
WithMetrics(scenario_dict, retries) ==
    [k \in DOMAIN scenario_dict \cup {"_metrics"} |->
        IF k = "_metrics" THEN [retries |-> retries] ELSE scenario_dict[k]]

\* scenario.pop("_metrics", None)
Pop(scenario, key) == [k \in DOMAIN scenario \ {key} |-> scenario[k]]

\* The scenario dict assembled from the base scenario and the personas
Assemble(base, personas) ==
    [murderer |-> base.murderer, personas |-> personas]

_validate_scenarioNoDuplicateCheck(scenario) ==
    scenario.murderer \in {scenario.personas[i].slug :
                              i \in DOMAIN scenario.personas}

\* _validate_scenario: TRUE when it raises nothing
_validate_scenario(scenario) ==
    /\ \A i, j \in DOMAIN scenario.personas :
          scenario.personas[i].slug = scenario.personas[j].slug => i = j
    /\ scenario.murderer \in {scenario.personas[i].slug :
                                 i \in DOMAIN scenario.personas}

\* The message of the ValueError that _validate_scenario raises
ValidateMessage(scenario) ==
    IF \E i, j \in DOMAIN scenario.personas :
          i # j /\ scenario.personas[i].slug = scenario.personas[j].slug
    THEN "Duplicate persona slug"
    ELSE "Murderer not found in personas"

\* gen while nothing has been done yet.  attempts, causes, launched and
\* altered are history: the attempts begun, the cause of each failed attempt,
\* the Phase 2 calls issued in the current attempt, and whether one of them
\* returned a persona with fields other than its blueprint's.  game_id is
\* the game progress is broadcast for ("" for none), and lost is history:
\* whether a progress push of this generation did not reach Laravel.
\* stale counts the Phase 2 calls of failed attempts that are still running,
\* and late is history: whether one of them has recorded its timing and
\* pushed its progress after its attempt had ended.  progress is the
\* percentage last pushed in Phase 2 of the current attempt (0 outside
\* Phase 2 and without game_id).
NoGen ==
    [op |-> "none", stage |-> "idle", budget |-> 0, attempt |-> 0,
     base |-> Absent, pending |-> {}, personas |-> <<>>, result |-> Absent,
     error |-> None, attempts |-> 0, causes |-> <<>>, launched |-> 0,
     altered |-> FALSE, game_id |-> "", lost |-> FALSE,
     stale |-> 0, late |-> FALSE, progress |-> 0]

\* base_progress = 45 in persona_complete, and the progress of
\* generating_personas
base_progress == 45

\* _send_progress_async: TRUE when it returns normally.  The POST to Laravel
\* is inside try/except Exception, so it does whether or not the POST went
\* through.
_send_progress_async(delivered) == TRUE

AttemptFailedFirstError(g, cause) ==
    LET causes == Append(g.causes, cause)
    IN  IF g.op = "async" /\ g.attempt < g.budget
        THEN [NoGen EXCEPT !.op = g.op, !.stage = "phase1",
                           !.stale = g.stale, !.late = g.late,
                           !.budget = g.budget,
                           !.attempt = g.attempt + 1,
                           !.attempts = g.attempts + 1,
                           !.causes = causes]
        ELSE [NoGen EXCEPT !.op = g.op, !.stage = "raised",
                           !.stale = g.stale, !.late = g.late,
                           !.budget = g.budget,
                           !.attempt = g.attempt,
                           !.attempts = g.attempts,
                           !.causes = causes,
                           !.error = IF g.op = "async"
                                     THEN "Scenario generation failed: "
                                             \o causes[1]
                                     ELSE cause]

\* The except branch of generate_async: last_error = str(e), and another
\* attempt, or ValueError(f"Scenario generation failed: {last_error}") after
\* max_retries + 1 attempts.  The other entry points do not catch.
AttemptFailed(g, cause) ==
    LET causes == Append(g.causes, cause)
    IN  IF g.op = "async" /\ g.attempt < g.budget
        THEN [NoGen EXCEPT !.op = g.op, !.stage = "phase1",
                           !.stale = g.stale, !.late = g.late,
                           !.budget = g.budget,
                           !.attempt = g.attempt + 1,
                           !.attempts = g.attempts + 1,
                           !.causes = causes]
        ELSE [NoGen EXCEPT !.op = g.op, !.stage = "raised",
                           !.stale = g.stale, !.late = g.late,
                           !.budget = g.budget,
                           !.attempt = g.attempt,
                           !.attempts = g.attempts,
                           !.causes = causes,
                           !.error = IF g.op = "async"
                                     THEN "Scenario generation failed: "
                                             \o cause
                                     ELSE cause]

\* A stretch of the generator that takes g to h and awaits progress pushes
\* on the way (only when a game_id was given).  A push that raised would
\* leave the stretch as an exception of the attempt.
send_progress(g, h, delivered) ==
    IF g.game_id = ""
    THEN [h EXCEPT !.game_id = "", !.lost = FALSE, !.progress = 0]
    ELSE IF ~_send_progress_async(delivered)
         THEN [AttemptFailed(g, "progress push failed") EXCEPT
                  !.game_id = g.game_id, !.lost = TRUE]
         ELSE [h EXCEPT !.game_id = g.game_id,
                        !.lost = g.lost \/ ~delivered]

\* generate_async is called with max_retries = r: progress "started" and
\* "generating_scenario" are pushed, and Phase 1 is awaited.
GenerateAsync(r, game_id, delivered) ==
    /\ gen = Absent
    /\ LET g == [NoGen EXCEPT !.op = "async", !.stage = "phase1",
                              !.budget = r, !.attempts = 1,
                              !.game_id = game_id]
       IN  gen' = send_progress(g, g, delivered)
    /\ UNCHANGED serviceVars

\* generate_base_only is called.
GenerateBaseOnly(game_id, delivered) ==
    /\ gen = Absent
    /\ LET g == [NoGen EXCEPT !.op = "base_only", !.stage = "phase1",
                              !.attempts = 1, !.game_id = game_id]
       IN  gen' = send_progress(g, g, delivered)
    /\ UNCHANGED serviceVars

\* progress_service.generating_personas: the update it sends
generating_personas(total) ==
    [stage |-> "generating_personas", progress |-> base_progress,
     total_personas |-> total]

\* progress_service.persona_complete: the update it sends for the persona
\* at position index (from 0) of total; int() cuts the fraction off.
persona_complete(index, total) ==
    [stage |-> "persona_complete",
     progress |-> base_progress + (35 * (index + 1)) \div total,
     persona_index |-> index, total_personas |-> total]

\* Phase 2 is started: one task per blueprint, all of them handed to
\* asyncio.gather.
StartPhase2(g, base) ==
    [g EXCEPT !.stage = "phase2", !.base = base,
              !.progress =
                 generating_personas(Len(base.persona_blueprints)).progress,
              !.pending = DOMAIN base.persona_blueprints,
              !.launched = Len(base.persona_blueprints),
              !.personas = [i \in DOMAIN base.persona_blueprints |-> Absent]]

\* await self.base_llm.ainvoke(messages) returns; progress
\* "scenario_complete" and "generating_personas" (or, in the except branch,
\* "error") are pushed.
BaseReturn(out, delivered) ==
    /\ gen # Absent
    /\ gen.stage = "phase1"
    /\ gen' = send_progress(gen,
                 IF ~BaseScenarioModel(out)
                 THEN AttemptFailed(gen,
                                    "validation error for BaseScenarioModel")
                 ELSE IF gen.op = "base_only"
                      THEN [gen EXCEPT !.stage = "returned", !.result = out]
                      ELSE StartPhase2(gen, out),
                 delivered)
    /\ UNCHANGED serviceVars

BaseFailFatal(cause, delivered) ==
    /\ gen # Absent
    /\ gen.stage = "phase1"
    /\ gen' = [gen EXCEPT !.stage = "raised", !.error = cause,
                          !.causes = Append(@, cause)]
    /\ UNCHANGED serviceVars

\* await self.base_llm.ainvoke(messages) raises.
BaseFail(cause, delivered) ==
    /\ gen # Absent
    /\ gen.stage = "phase1"
    /\ gen' = send_progress(gen, AttemptFailed(gen, cause), delivered)
    /\ UNCHANGED serviceVars

\* generate_personas_from_base is called with the base scenario that
\* generate_base_only returned.
GeneratePersonasFromBase(delivered) ==
    /\ gen # Absent
    /\ gen.op = "base_only" /\ gen.stage = "returned"
    /\ gen' = send_progress(gen,
                 StartPhase2([NoGen EXCEPT !.op = "from_base",
                                           !.attempts = 1],
                             gen.result),
                 delivered)
    /\ UNCHANGED serviceVars

\* The task of blueprint i returns its persona and pushes progress
\* "persona_complete"; when it is the last one, asyncio.gather returns and
\* the scenario is assembled and validated.
PersonaReturn(i, altered, delivered) ==
    /\ gen # Absent
    /\ gen.stage = "phase2"
    /\ i \in gen.pending
    /\ LET blueprint == gen.base.persona_blueprints[i]
           persona == PersonaFromBlueprint(blueprint,
                                           PersonaModel(blueprint, altered))
           personas == [gen.personas EXCEPT ![i] = persona]
           scenario_dict == Assemble(gen.base, personas)
           pushed == persona_complete(i - 1, Len(gen.base.persona_blueprints))
       IN  gen' = send_progress(gen,
                    IF gen.pending # {i}
                    THEN [gen EXCEPT !.pending = @ \ {i},
                                     !.personas = personas,
                                     !.progress = pushed.progress,
                                     !.altered = @ \/ altered]
                    ELSE IF _validate_scenario(scenario_dict)
                         THEN [gen EXCEPT !.stage = "returned",
                                          !.pending = {},
                                          !.personas = personas,
                                          !.progress = pushed.progress,
                                          !.altered = @ \/ altered,
                                          !.result =
                                             WithMetrics(scenario_dict,
                                                         gen.attempt)]
                         ELSE AttemptFailed(gen,
                                            ValidateMessage(scenario_dict)),
                    delivered)
    /\ UNCHANGED serviceVars

GatherFailedIgnored(g, i, cause) ==
    IF g.pending = {i} THEN AttemptFailed(g, cause)
    ELSE [g EXCEPT !.pending = @ \ {i}, !.causes = Append(@, cause)]

\* personas = await asyncio.gather(*tasks): the first exception of a task is
\* raised to the awaiting attempt at once, and the other tasks are left
\* running.
GatherFailed(g, i, cause) ==
    [AttemptFailed(g, cause) EXCEPT
        !.stale = g.stale + Cardinality(g.pending \ {i})]

\* The task of blueprint i raises, and asyncio.gather raises with it; the
\* next attempt, if there is one, pushes progress "generating_scenario".
PersonaFail(i, cause, delivered) ==
    /\ gen # Absent
    /\ gen.stage = "phase2"
    /\ i \in gen.pending
    /\ gen' = send_progress(gen, GatherFailed(gen, i, cause), delivered)
    /\ UNCHANGED serviceVars

\* A Phase 2 call of a failed attempt returns: its task records the timing
\* in the metrics object the attempts share and pushes "persona_complete".
StalePersonaReturn(delivered) ==
    /\ gen # Absent
    /\ gen.stale > 0
    /\ gen' = [gen EXCEPT !.stale = @ - 1, !.late = TRUE,
                          !.lost = @ \/ (gen.game_id # "" /\ ~delivered)]
    /\ UNCHANGED serviceVars

\* A Phase 2 call of a failed attempt raises: nobody awaits its task.
StalePersonaFail ==
    /\ gen # Absent
    /\ gen.stale > 0
    /\ gen' = [gen EXCEPT !.stale = @ - 1]
    /\ UNCHANGED serviceVars

\* The caller has taken the result or the error (calls of failed attempts
\* that are still running are followed no further).
GenDone ==
    /\ gen # Absent
    /\ gen.stage \in {"returned", "raised"}
    /\ gen' = Absent
    /\ UNCHANGED serviceVars

\* max_retries as the callers pass it
Budgets == 0..max_retries

\* POST /scenario/generate after generate_async(user_input, difficulty)
\* has returned: the Coordinator and its graph are built and registered,
\* and the image generator is awaited.
GenerateScenarioRegister(g) ==
    /\ gen # Absent
    /\ gen.op = "async" /\ gen.stage = "returned"
    /\ gen.game_id = "" /\ gen.budget = max_retries
    /\ Register(g, gen.result)
    /\ pending' = pending \cup {[g |-> g, gm |-> ngms + 1]}
    /\ gen' = [gen EXCEPT !.stage = "images"]
    /\ UNCHANGED <<heap, turns, nturns, voice, last>>

\* POST /scenario/generate after the image generator has returned: the
\* handler pops "_metrics" from the scenario dict, which is the dict the
\* Coordinator holds, and answers.
GenerateScenarioEnd(q, call) ==
    /\ gen # Absent
    /\ gen.stage = "images"
    /\ q \in pending
    /\ pending' = pending \ {q}
    /\ last' = ImageResponse("generate", q.g, call)
    /\ gamemasters' =
          IF last'.status = 200 /\ gamemasters[q.g].id = q.gm
          THEN [gamemasters EXCEPT ![q.g].scenario = Pop(@, "_metrics")]
          ELSE gamemasters
    /\ gen' = Absent
    /\ UNCHANGED <<game_states, heap, turns, nturns, ngms, voice, routed>>

\* The games progress is broadcast for: none, or the game being generated
GameIds == {"", "g1"}

\* No handler has registered a Coordinator or is waiting for images.
Fresh == ngms = 0 /\ pending = {}

\* No handler is waiting for images, and a Coordinator can still be built.
Ready == ngms < MaxGMs /\ pending = {}

\* The generator called without game_id, as POST /scenario/generate calls
\* it: no progress is pushed.
GenNext ==
    \/ \E r \in Budgets : GenerateAsync(r, "", TRUE)
    \/ GenerateBaseOnly("", TRUE)
    \/ \E out \in BaseOutputs : BaseReturn(out, TRUE)
    \/ BaseFail("timeout", TRUE)
    \/ GeneratePersonasFromBase(TRUE)
    \/ \E i \in 1..MaxBlueprints, a \in BOOLEAN : PersonaReturn(i, a, TRUE)
    \/ \E i \in 1..MaxBlueprints :
          PersonaFail(i, "persona call failed", TRUE)
    \/ StalePersonaReturn(TRUE)
    \/ StalePersonaFail
    \/ GenDone

GenSpec == InitSilent /\ [][GenNext]_vars

\* C10: every scenario returned by generate_async or
\* generate_personas_from_base has at least 4 personas, pairwise distinct
\* persona slugs, and a murderer slug that is the slug of one of them.
C10_ReturnedPackValid ==
    (gen # Absent /\ gen.stage = "returned"
        /\ gen.op \in {"async", "from_base"}) =>
        LET personas == gen.result.personas
        IN  /\ Len(personas) >= 4
            /\ \A i, j \in DOMAIN personas :
                  personas[i].slug = personas[j].slug => i = j
            /\ gen.result.murderer \in
                  {personas[i].slug : i \in DOMAIN personas}

\* generate_async has returned a scenario at its last attempt.
C10_Witness ==
    /\ gen # Absent
    /\ gen.stage = "returned" /\ gen.op = "async"
    /\ gen.budget = max_retries
    /\ gen.attempt = max_retries
    /\ Len(gen.result.personas) = 5

\* C11: when generate_async raises, it has made exactly max_retries + 1
\* attempts, every one of which failed; the error carries the cause of the
\* last attempt, and no scenario, complete or partial, is returned.
C11_RetryExhaustion ==
    (gen # Absent /\ gen.op = "async" /\ gen.stage = "raised") =>
        /\ gen.attempts = gen.budget + 1
        /\ Len(gen.causes) = gen.attempts
        /\ gen.error = "Scenario generation failed: "
                          \o gen.causes[Len(gen.causes)]
        /\ gen.result = Absent
        /\ gen.personas = <<>>

\* Three attempts have failed, the first and the last for different reasons.
C11_Witness ==
    /\ gen # Absent
    /\ gen.op = "async" /\ gen.stage = "raised"
    /\ gen.budget = max_retries
    /\ gen.causes[1] # gen.causes[Len(gen.causes)]
    /\ gen.causes[Len(gen.causes)] = "Duplicate persona slug"

\* C12: Phase 2 issues one call per blueprint, N calls for N blueprints, and
\* returns N personas in blueprint order; persona i has the slug, name, role
\* and public_description of blueprint i, whatever the call returned.
C12_PersonasFollowBlueprints ==
    (gen # Absent /\ gen.stage \in {"phase2", "returned"}
        /\ gen.op \in {"async", "from_base"}) =>
        LET blueprints == gen.base.persona_blueprints
        IN  /\ gen.launched = Len(blueprints)
            /\ DOMAIN gen.personas = DOMAIN blueprints
            /\ \A i \in DOMAIN blueprints :
                  \/ i \in gen.pending /\ gen.personas[i] = Absent
                  \/ /\ i \notin gen.pending
                     /\ gen.personas[i].slug = blueprints[i].slug
                     /\ gen.personas[i].name = blueprints[i].name
                     /\ gen.personas[i].role = blueprints[i].role
                     /\ gen.personas[i].public_description
                           = blueprints[i].public_description
            /\ gen.stage = "returned" =>
                  gen.pending = {} /\ gen.result.personas = gen.personas

\* generate_personas_from_base has returned four personas, one of them from
\* a call that had altered the blueprint's fields.
C12_Witness ==
    /\ gen # Absent
    /\ gen.stage = "returned" /\ gen.op = "from_base"
    /\ Len(gen.result.personas) = 4
    /\ gen.altered
    /\ gen.result.personas[3].name = "Name of cara"

\* The step in which a Phase 2 call fails
PersonaFails ==
    /\ gen # Absent /\ gen' # Absent
    /\ gen.stage = "phase2"
    /\ Len(gen'.causes) = Len(gen.causes) + 1
    /\ gen'.causes[Len(gen'.causes)] = "persona call failed"

\* C13: Phase 2 is a barrier.  All N calls are issued when the phase starts;
\* a scenario is assembled and returned only when every call has completed
\* with a persona; and when one call fails the phase ends without a scenario
\* and the retry loop decides (another attempt, or the error is raised).
C13_Phase2Barrier ==
    /\ []((gen # Absent /\ gen.stage = "phase2") =>
            /\ gen.launched = Len(gen.base.persona_blueprints)
            /\ gen.pending \subseteq DOMAIN gen.personas
            /\ gen.pending # {}
            /\ gen.result = Absent)
    /\ []((gen # Absent /\ gen.stage = "returned" /\ gen.op # "base_only") =>
            /\ gen.pending = {}
            /\ \A i \in DOMAIN gen.personas : gen.personas[i] # Absent)
    /\ [][PersonaFails =>
            /\ gen'.result = Absent
            /\ gen'.personas = <<>>
            /\ gen'.pending = {}
            /\ IF gen.op = "async" /\ gen.attempt < gen.budget
               THEN gen'.stage = "phase1" /\ gen'.attempt = gen.attempt + 1
               ELSE gen'.stage = "raised"]_vars

\* A Phase 2 call has failed, and the attempt after it has returned a
\* scenario.
C13_Witness ==
    /\ gen # Absent
    /\ gen.op = "async" /\ gen.stage = "returned"
    /\ gen.causes = <<"persona call failed">>
    /\ gen.attempt = 1

\* C14: in every base scenario that Phase 2 is run on, and so behind every
\* scenario returned, exactly one blueprint has is_murderer = TRUE.
C14_OneMurdererBlueprint ==
    (gen # Absent /\ gen.stage \in {"phase2", "returned"}
        /\ gen.op \in {"async", "from_base"}) =>
        Cardinality({i \in DOMAIN gen.base.persona_blueprints :
                        gen.base.persona_blueprints[i].is_murderer}) = 1

----------------------------------------------------------------------------
(* Coordinators built from the default scenario of the database *)

\* A scenario dict with the given persona slugs
ScenarioOf(name, slugs, murderer) ==
    [name |-> name,
     murderer |-> murderer,
     personas |-> [i \in DOMAIN slugs |->
                      [slug |-> slugs[i], name |-> "Name of " \o slugs[i]]]]

\* What prompt_service.get_scenario("default_scenario") may return: the
\* scenario a Content Manager has stored, well-formed or not.
DatabaseScenarios ==
    {ScenarioOf("Der Fall Hafen", <<"tom", "ida", "jan", "kai">>, "ida"),
     ScenarioOf("Drei Verdaechtige", <<"tom", "ida", "jan">>, "ida"),
     ScenarioOf("Zweimal Tom", <<"tom", "ida", "jan", "tom">>, "ida"),
     ScenarioOf("Fremder Moerder", <<"tom", "ida", "jan", "kai">>, "zoe")}

\* POST /scenario/default when get_default_scenario finds a scenario in the
\* database
UseDatabaseScenario(g, scenario) ==
    /\ Register(g, scenario)
    /\ UNCHANGED <<heap, turns, pending, nturns, voice, last, gen>>

BuildNext ==
    \/ \E g \in Games, scenario \in DatabaseScenarios :
          ngms < MaxGMs /\ UseDatabaseScenario(g, scenario)
    \/ \E g \in Games : ngms < MaxGMs /\ UseDefaultScenario(g)
    \/ \E g \in Games : StartGame(g)

BuildSpec == InitSilent /\ [][BuildNext]_vars

\* The structural invariants of a Knowledge Pack
ValidPack(scenario) ==
    /\ Len(scenario.personas) >= min_length
    /\ \A i, j \in DOMAIN scenario.personas :
          scenario.personas[i].slug = scenario.personas[j].slug => i = j
    /\ scenario.murderer \in Slugs(scenario)

\* C15: a Coordinator is registered for a game only if its pack satisfies
\* the structural invariants (at least 4 characters, distinct ids, the
\* murderer among them), and it has exactly one Character Agent per
\* character of the pack.
C15_BuildRejectsInvalidPack ==
    \A g \in Games : gamemasters[g] # Absent =>
        /\ ValidPack(gamemasters[g].scenario)
        /\ Cardinality(DOMAIN gamemasters[g].persona_agents)
              = Len(gamemasters[g].scenario.personas)
        /\ \A i \in DOMAIN gamemasters[g].scenario.personas :
              gamemasters[g].scenario.personas[i].slug
                 \in DOMAIN gamemasters[g].persona_agents

----------------------------------------------------------------------------
\* The step is a call of initialize_game from start_game or from
\* get_game_info: a new agent_states object is built and no chat request
\* moves.
InitializeGameStep == Len(heap') = Len(heap) + 1 /\ turns' = turns

\* The store holds a fresh Game State for g, built around the newest object.
FreshState(g) ==
    /\ game_states[g] # Absent
    /\ game_states[g].game_id = g
    /\ game_states[g].messages = <<>>
    /\ game_states[g].revealed_clues = <<>>
    /\ game_states[g].agent_states = Len(heap)
    /\ DOMAIN StoredAgents(g) = Slugs(gamemasters[g].scenario)
    /\ \A slug \in Slugs(gamemasters[g].scenario) :
          /\ StoredAgents(g)[slug].stress_level = F(0, 0)
          /\ StoredAgents(g)[slug].interrogation_count = 0
          /\ StoredAgents(g)[slug].lies_told = 0

\* C16: initialize_game(game_id) leaves the store holding a fresh Game State
\* for game_id (empty history, no revealed clues, every character of the
\* pack at stress 0 with no interrogation and no lie), whatever was stored
\* for it before, and leaves the states of the other games as they were.
C16_InitializeGameFresh ==
    [][InitializeGameStep =>
          \E g \in Games :
             /\ FreshState(g)'
             /\ \A g2 \in Games \ {g} : StoreView(g2)' = StoreView(g2)]_vars

\* Game g1 was started, a turn on it has completed, and starting it again
\* on the same Coordinator has replaced the stored state.
C16_Witness ==
    /\ Stored("g1")
    /\ gamemasters["g1"].id = 1
    /\ game_states["g1"].agent_states = 2
    /\ game_states["g1"].messages = <<>>
    /\ last.op = "chat" /\ last.g = "g1" /\ last.status = 200

----------------------------------------------------------------------------
\* s is a suffix of t
IsSuffix(s, t) ==
    /\ Len(s) <= Len(t)
    /\ \A i \in 1..Len(s) : s[i] = t[Len(t) - Len(s) + i]

\* The entries of a history that persona slug may be shown: the player's
\* entries and its own replies, in order, as messages for the model.
OwnEntries(slug, messages) ==
    LET own == SelectSeq(messages,
                         LAMBDA msg : \/ msg.persona_slug = None
                                      \/ msg.persona_slug = slug)
    IN  [i \in DOMAIN own |->
            [type |-> IF own[i].persona_slug = None THEN "human" ELSE "ai",
             content |-> own[i].content]]

\* The requests whose agent is awaiting the model or the voice service
Awaiting == {t \in turns : t.stage \in {"llm", "voice"}}

----------------------------------------------------------------------------
\* keyword occurs in reply, whatever the case of the reply's letters
Occurs(keyword, reply) == Contains(Lower(reply), keyword)

\* The requests whose agent has returned
Returned == {t \in turns : t.stage = "post"}

\* C18: the detected clue of a turn is the clue of the first keyword, in the
\* order of the character's keyword list, that occurs in the reply without
\* regard to case, and there is none when no keyword occurs; nothing but
\* the reply and the agent's keyword list (and name) enters.
C18_FirstConfiguredKeyword ==
    \A t \in Returned :
        LET agent == t.gm.persona_agents[t.target]
            kws == agent.clue_keywords
        IN  /\ (\A i \in DOMAIN kws : ~Occurs(kws[i], t.reply))
                  => t.state.detected_clue = None
            /\ \A i \in DOMAIN kws :
                  (/\ Occurs(kws[i], t.reply)
                   /\ \A j \in 1..(i - 1) : ~Occurs(kws[j], t.reply))
                  => t.state.detected_clue = FormatClue(agent.name, kws[i])

\* Klaus has replied "Im Flur war BLUT.": "flur" occurs first in the reply,
\* "blut" comes first in his keyword list and occurs in capitals only, and
\* the clue recorded is the one for "blut".
C18_Witness ==
    \E t \in Returned :
        /\ t.target = "klaus"
        /\ t.reply = "Im Flur war BLUT."
        /\ t.state.detected_clue = FormatClue("Klaus Mueller", "blut")

----------------------------------------------------------------------------
\* The step takes a chat request for game g into the graph.
ChatAccepted(g) ==
    \E t \in turns' \ turns : t.g = g /\ t.stage = "graph"

\* The step answers a chat request for game g with a client error, before
\* any turn exists for it.
ChatRejected(g) ==
    /\ turns' = turns
    /\ last' # last
    /\ last'.op = "chat" /\ last'.g = g /\ last'.turn = 0
    /\ last'.status \in {400, 404}

\* C19: a chat request for a game that holds no initialized Game State is
\* answered with a client error and not taken up, and the game holds no
\* Game State afterwards.
C19_ChatBeforeStartRejected ==
    [][\A g \in Games :
          (game_states[g] = Absent /\ (ChatAccepted(g) \/ ChatRejected(g)))
             => ChatRejected(g) /\ game_states'[g] = Absent]_vars

----------------------------------------------------------------------------
\* What a request at the voice stage has become after the step, if it is
\* still there
After(t) == {u \in turns' : u.id = t.id}

\* C20: a voice-synthesis failure during a turn is not fatal.  The request
\* goes on to its completion with no audio attached, and the reply, the
\* history entry, the stress and interrogation update and the clue update
\* are those of a turn without voice synthesis.
C20_VoiceFailureNotFatal ==
    [][\A t \in turns : t.stage = "voice" /\ t \notin turns' =>
          /\ After(t) # {}
          /\ \A u \in After(t) :
                LET agent == t.gm.persona_agents[t.target]
                    silent == [agent EXCEPT !.voice_id = None]
                    quiet == InvokeResult(silent, t.state, t.reply, None)
                    ref == t.state.agent_states
                    n == Len(u.state.messages)
                IN  /\ u.stage = "post"
                    /\ u.reply = t.reply
                    /\ u.state.messages[n].audio_base64 = None
                          => /\ u.state.final_response = quiet.final_response
                             /\ u.state.responding_agent
                                   = quiet.responding_agent
                             /\ u.state.detected_clue = quiet.detected_clue
                             /\ u.state.revealed_clues = quiet.revealed_clues
                             /\ n = Len(quiet.messages)
                             /\ \A i \in 1..(n - 1) :
                                   u.state.messages[i] = quiet.messages[i]
                             /\ u.state.messages[n].role = "assistant"
                             /\ u.state.messages[n].persona_slug = t.target
                             /\ u.state.messages[n].content = t.reply
                             /\ u.state.agent_states = ref
                             /\ heap'[ref] = InvokeAgentStates(heap[ref],
                                                               t.target)]_vars

\* A turn whose character has a voice was answered 200 and its reply is
\* stored without audio: the voice call had failed or returned nothing.
C20_Witness ==
    /\ Stored("g1")
    /\ last.op = "chat" /\ last.status = 200
    /\ game_states["g1"].messages # <<>>
    /\ LET msg == game_states["g1"].messages[Len(game_states["g1"].messages)]
       IN  /\ msg.role = "assistant"
           /\ msg.voice_id # None
           /\ msg.audio_base64 = None
           /\ msg.persona_slug = last.slug

----------------------------------------------------------------------------
\* C21: within the life of one game revealed_clues of the stored Game State
\* never shrinks: the clues stored before a step of a chat turn are the
\* first clues stored after it, in the same order.
C21_CluesNeverShrink ==
    [][\A g \in Games :
          (Stored(g) /\ ChatStepOn(g)) =>
             /\ Stored(g)'
             /\ IsPrefix(game_states[g].revealed_clues,
                         game_states'[g].revealed_clues)]_vars

----------------------------------------------------------------------------
(* The handlers that await the image generator, and the generator with      *)
(* progress broadcasting, on few Phase 1 outputs                            *)

\* Whether the progress pushes of a stretch reach Laravel; without a
\* game_id there is no push.
Deliveries == IF gen = Absent \/ gen.game_id = "" THEN {TRUE} ELSE BOOLEAN

\* Phase 1 outputs with three or four blueprints, murderer "ben" flagged
PushOutputs ==
    {out \in BaseOutputs :
        /\ Len(out.persona_blueprints) <= min_length
        /\ out.murderer = "ben"
        /\ \A i \in DOMAIN out.persona_blueprints :
              out.persona_blueprints[i].is_murderer <=> i = 2}

PushNext ==
    \/ \E id \in GameIds, d \in BOOLEAN :
          Ready /\ GenerateAsync(max_retries, id, d)
    \/ \E out \in PushOutputs, d \in Deliveries : BaseReturn(out, d)
    \/ \E d \in Deliveries : BaseFail("timeout", d)
    \/ \E i \in 1..min_length, d \in Deliveries : PersonaReturn(i, FALSE, d)
    \/ \E i \in 1..min_length, d \in Deliveries :
          PersonaFail(i, "persona call failed", d)
    \/ \E d \in Deliveries : StalePersonaReturn(d)
    \/ StalePersonaFail
    \/ GenDone
    \/ GenerateScenarioRegister("g1")
    \/ \E q \in pending, call \in ImageCalls : GenerateScenarioEnd(q, call)
    \/ gen = Absent /\ Fresh /\ QuickStartBegin("g1")
    \/ \E q \in pending, call \in ImageCalls :
          gen = Absent /\ QuickStartEnd(q, call)

PushSpec == InitSilent /\ [][PushNext]_vars

----------------------------------------------------------------------------
\* The handler that answered last awaited the image generator.
ImagesAnswered == last.op \in {"quick-start", "generate"}

\* The image requests of a call that came back with an image
Succeeded(call) == {i \in DOMAIN call.results : call.results[i] # None}

\* The image collaborator failed in the call: the call raised, or one of
\* its image requests failed.
ImageFailure(call) ==
    call.enabled /\ (call.raised \/ Succeeded(call) # DOMAIN call.results)

\* No progress push has failed a generation attempt.
PushNeverFails ==
    gen # Absent =>
        /\ \A i \in DOMAIN gen.causes : gen.causes[i] # "progress push failed"
        /\ gen.error \notin {"progress push failed",
                             "Scenario generation failed: "
                                \o "progress push failed"}

----------------------------------------------------------------------------
\* C23: every character id that appears in a stored Game State (keys of the
\* per-character dynamic state, persona ids on history entries, selected
\* and responding character) is the id of a character of the pack the
\* game's Coordinator was built from.
C23_CharacterIdsKnown ==
    \A g \in Games : Stored(g) =>
        LET characters == Slugs(gamemasters[g].scenario)
            state == game_states[g]
        IN  /\ DOMAIN StoredAgents(g) \subseteq characters
            /\ \A i \in DOMAIN state.messages :
                  state.messages[i].persona_slug \in characters \cup {None}
            /\ state.selected_persona \in characters \cup {""}
            /\ state.responding_agent \in characters \cup {""}

----------------------------------------------------------------------------
\* C24: the pack a Coordinator holds is never modified: as long as the same
\* Coordinator is registered for a game, its scenario is what it was built
\* from.
C24_PackImmutable ==
    [][\A g \in Games :
          (/\ gamemasters[g] # Absent
           /\ gamemasters'[g] # Absent
           /\ gamemasters'[g].id = gamemasters[g].id)
          => gamemasters'[g].scenario = gamemasters[g].scenario]_vars

----------------------------------------------------------------------------
\* C25: while a turn is suspended, the stored Game State of its game is the
\* complete state from before the turn (the complete state after it is
\* stored when the turn ends); no part of the turn's effects is visible in
\* the store.
C25_TurnAtomic ==
    \A t \in turns : StoreView(t.g) = t.before

----------------------------------------------------------------------------
\* Another turn on the game of t has completed and stored its state while
\* t was in flight.
Overtaken(t) ==
    /\ t.before # Absent
    /\ Stored(t.g)
    /\ gamemasters[t.g].id = t.gm.id
    /\ game_states[t.g] # t.before.state
    /\ last.op = "chat" /\ last.g = t.g /\ last.status = 200
    /\ last.turn # t.id

\* C26: when two chat turns on one game overlap and both complete, the
\* state stored at the end holds the effects of both: the reply of the turn
\* that completed first is still in the history, next to the reply of the
\* turn that completed last, and every clue the first one stored is still
\* there.
C26_BothTurnsApplied ==
    [][\A t \in turns : (Completes(t) /\ Overtaken(t)) =>
          LET old == game_states[t.g]
              new == game_states'[t.g]
          IN  /\ old.messages[Len(old.messages)] \in Range(new.messages)
              /\ new.messages[Len(new.messages)].content = t.reply
              /\ Range(old.revealed_clues) \subseteq Range(new.revealed_clues)]_vars

----------------------------------------------------------------------------
\* Turn t goes from one stage of the graph run to the next and is u after
\* the step.
Advances(t, from, u, to) ==
    /\ t \in turns /\ t.stage = from
    /\ u \in turns' /\ u.id = t.id /\ u.stage = to

\* C27: in a graph run whose selected persona is one of the scenario's,
\* routing leaves the game state as it was, the agent invoked is the one
\* with the selected slug, and the state the agent returns names the
\* selected persona as responding agent.
C27_RoutingPure ==
    [][\A t \in turns : \A u \in turns' :
          t.state.selected_persona \in DOMAIN t.gm.persona_agents =>
             /\ Advances(t, "graph", u, "llm") =>
                   /\ u.state = t.state
                   /\ u.target = t.state.selected_persona
             /\ Advances(t, "llm", u, "post") =>
                   u.state.responding_agent = t.state.selected_persona]_vars

----------------------------------------------------------------------------
\* The edges of the compiled graph, as stages of a turn: the router hands
\* over to one persona node, the node awaits the model and, for an agent
\* with a voice, the voice service, and its return is the edge to END.
GraphEdges ==
    {<<"graph", "llm">>, <<"llm", "voice">>, <<"llm", "post">>,
     <<"voice", "post">>}

\* C28: a graph run is one pass from the entry over the router and one
\* persona node to the exit: a turn only moves along the edges of the graph
\* and never back to the router, a model call that returns takes it on
\* towards the exit, and over the whole run exactly one agent, the routed
\* one, is invoked exactly once (its interrogation count goes up by one
\* when its node returns, and no other count changes).
C28_SinglePass ==
    [][\A t \in turns : \A u \in turns' :
          u.id = t.id =>
             /\ u.stage # t.stage => <<t.stage, u.stage>> \in GraphEdges
             /\ u.state.agent_states = t.state.agent_states
             /\ \A slug \in DOMAIN t.gm.persona_agents :
                   heap'[u.state.agent_states][slug].interrogation_count =
                      heap[t.state.agent_states][slug].interrogation_count
                         + (IF u.stage = "post" /\ t.stage # "post"
                                /\ slug = u.target
                            THEN 1 ELSE 0)]_vars

\* A graph run has reached the exit after the router, the model and the
\* voice service: the node of the selected persona has returned a reply
\* with audio.
C28_Witness ==
    \E t \in turns :
       /\ t.stage = "post"
       /\ t.target = t.request.persona_slug
       /\ t.state.messages[Len(t.state.messages)].audio_base64 # None
       /\ heap[t.state.agent_states][t.target].interrogation_count = 2

----------------------------------------------------------------------------
\* The state prepare_state_for_agent handed to the graph run of turn t.
Prepared(t) ==
    prepare_state_for_agent(t.state, t.request.persona_slug,
                            t.request.message, t.request.chat_history)

\* C29: the state a graph run returns (history, revealed clues, response
\* fields, and the agent_states object it points to) is the state that
\* selecting the persona with route_to_persona and calling that agent's
\* invoke on the prepared state gives: the prepared history with the one
\* reply appended.
C29_GraphEqualsRouteThenInvoke ==
    [][\A t \in turns : \A u \in turns' :
          (Advances(t, "llm", u, "post") \/ Advances(t, "voice", u, "post")) =>
             LET prepared == Prepared(t)
                 agent == t.gm.persona_agents[route_to_persona(t.gm, prepared)]
                 reply == u.state.messages[Len(u.state.messages)]
             IN  u.state = InvokeResult(agent, prepared, u.reply,
                                        reply.audio_base64)]_vars

----------------------------------------------------------------------------
\* An attempt of generate_async fails in this step: one more cause.
AttemptFails ==
    /\ gen # Absent /\ gen' # Absent
    /\ gen.op = "async" /\ gen'.op = "async"
    /\ Len(gen'.causes) = Len(gen.causes) + 1

\* An attempt of generate_async passes validation in this step.
AttemptPasses ==
    /\ gen # Absent /\ gen' # Absent
    /\ gen.op = "async" /\ gen.stage = "phase2"
    /\ gen'.stage = "returned"

\* C30: every failed attempt of generate_async, whether Phase 1, a Phase 2
\* call or validation failed, is followed by a new attempt that starts at
\* Phase 1 with nothing kept of the failed one, as long as fewer than
\* max_retries + 1 attempts have been made, and by the error otherwise;
\* the first attempt that passes validation ends the generation, and the
\* scenario returned is the one that attempt assembled.
C30_RetryFromPhase1 ==
    [][/\ AttemptFails =>
             IF gen.attempts < gen.budget + 1
             THEN /\ gen'.stage = "phase1"
                  /\ gen'.attempts = gen.attempts + 1
                  /\ gen'.base = Absent /\ gen'.pending = {}
                  /\ gen'.personas = <<>> /\ gen'.result = Absent
             ELSE gen'.stage = "raised"
       /\ AttemptPasses =>
             /\ gen'.attempts = gen.attempts
             /\ gen'.causes = gen.causes
             /\ Len(gen.causes) = gen.attempts - 1
             /\ Pop(gen'.result, "_metrics") = Assemble(gen.base, gen'.personas)
             /\ _validate_scenario(Assemble(gen.base, gen'.personas))
       /\ (gen # Absent /\ gen.op = "async" /\ gen.stage = "returned") =>
             \/ gen' = Absent
             \/ /\ gen'.stage = "returned"
                /\ gen'.result = gen.result
                /\ gen'.attempts = gen.attempts]_vars

\* generate_async returns the scenario of its third attempt, after one
\* attempt failed in Phase 1 and one in validation.
C30_Witness ==
    /\ gen # Absent
    /\ gen.op = "async" /\ gen.stage = "returned"
    /\ gen.attempts = 3
    /\ "timeout" \in Range(gen.causes)
    /\ "Murderer not found in personas" \in Range(gen.causes)

----------------------------------------------------------------------------
\* The float that stands for exactly n tenths, at most 1.0.
Tenths(n) == F(IF n < 10 THEN n ELSE 10, 0)

\* C31: in every stored Game State a character's stress_level is
\* min(1.0, 0.1 x interrogation_count): n tenths after n invocations, and
\* 1.0 from the 10th invocation on.
C31_StressIsTenthsOfCount ==
    \A g \in Games : Stored(g) =>
        \A slug \in DOMAIN StoredAgents(g) :
            StoredAgents(g)[slug].stress_level
               = Tenths(StoredAgents(g)[slug].interrogation_count)

----------------------------------------------------------------------------
\* The dynamic state of the persona turn t was routed to, as the store's
\* agent_states object holds it
OwnAgentState(t) == heap[t.state.agent_states][t.target]

\* C32: while a turn awaits the model, so before its own update of the
\* dynamic state, its stress modifier follows that state tier by tier: it
\* is empty when stress is below 0.3 and interrogation_count at most 5, the
\* 'very stressed' instruction is there exactly when stress is above 0.6
\* and then the 'nervous' instruction is there too, and the 'tired'
\* instruction, quoting interrogation_count, is there exactly when
\* interrogation_count exceeds 5, whatever the stress.
C32_ModifierTiersAdditive ==
    \A t \in turns : t.stage \in {"llm", "voice"} =>
        LET a == OwnAgentState(t)
            modifier == Range(t.stress_modifier)
        IN  /\ (FloatLess(a.stress_level, F(3, 0))
                  /\ a.interrogation_count <= 5) => t.stress_modifier = <<>>
            /\ VeryStressed \in modifier <=> FloatLess(F(6, 0), a.stress_level)
            /\ VeryStressed \in modifier =>
                  Nervous(a.stress_level) \in modifier
            /\ Tired(a.interrogation_count) \in modifier
                  <=> a.interrogation_count > 5
            /\ \A n \in 0..MaxPlayTurns :
                  Tired(n) \in modifier => n = a.interrogation_count

\* A persona questioned seven times is asked again: all three instructions
\* are in the prompt.
C32_Witness ==
    \E t \in turns :
       /\ t.stage = "llm"
       /\ OwnAgentState(t).interrogation_count = 7
       /\ t.stress_modifier
             = <<Nervous(F(7, 0)), VeryStressed, Tired(7)>>

----------------------------------------------------------------------------
\* C33: every successful turn overwrites the response fields of the stored
\* state: final_response is this turn's reply, responding_agent the persona
\* asked, and detected_clue what this reply triggers: nothing when the reply
\* holds no keyword, whatever the turn before detected, and the clue of the
\* first keyword found, whether or not it had been revealed before.
C33_ResponseFieldsOfThisTurn ==
    [][\A t \in turns : Completes(t) =>
          LET agent == t.gm.persona_agents[t.target]
              stored == game_states'[t.g]
          IN  /\ stored.final_response = t.reply
              /\ stored.responding_agent = t.request.persona_slug
              /\ stored.detected_clue = _detect_revealed_clue(agent, t.reply)
              /\ stored.user_message = t.request.message
              /\ stored.selected_persona = t.request.persona_slug]_vars

\* A turn whose reply triggers nothing has completed after a turn that
\* detected a clue: the stored detected_clue is empty again.
C33_Witness ==
    /\ last.op = "chat" /\ last.status = 200
    /\ last.before # Absent
    /\ last.before.state.detected_clue # None
    /\ Stored(last.g)
    /\ game_states[last.g].detected_clue = None
    /\ game_states[last.g].final_response = "Nein."
    /\ game_states[last.g].final_response # last.before.state.final_response

----------------------------------------------------------------------------
\* The agent_states the game of turn t held when the turn began (a game
\* without state is given the initial ones by the turn).
AgentsBefore(t) ==
    IF t.before = Absent THEN InitialAgentStates(t.gm.scenario)
    ELSE t.before.agents

\* C34: a chat turn routed to persona p changes, in the agent_states of the
\* stored state, only stress_level and interrogation_count of p: every
\* other persona's entry, and lies_told and last_topics of p, are after the
\* turn what they were before it.
C34_TurnTouchesOwnStressAndCount ==
    [][\A t \in turns : Completes(t) =>
          LET before == AgentsBefore(t)
              after == heap'[game_states'[t.g].agent_states]
          IN  /\ DOMAIN after = DOMAIN before
              /\ \A slug \in DOMAIN before \ {t.target} :
                    after[slug] = before[slug]
              /\ after[t.target].lies_told = before[t.target].lies_told
              /\ after[t.target].last_topics = before[t.target].last_topics
              /\ after[t.target].interrogation_count
                    = before[t.target].interrogation_count + 1
              /\ after[t.target].stress_level
                    = StressAfter(before[t.target].stress_level)]_vars

\* A turn to klaus has completed in a game in which tom had been questioned
\* before: tom's entry is as it was, klaus was questioned once more.
C34_Witness ==
    /\ last.op = "chat" /\ last.status = 200 /\ last.slug = "klaus"
    /\ last.before # Absent
    /\ last.before.agents["tom"].interrogation_count >= 1
    /\ Stored(last.g)
    /\ StoredAgents(last.g)["tom"] = last.before.agents["tom"]
    /\ StoredAgents(last.g)["klaus"].interrogation_count
          = last.before.agents["klaus"].interrogation_count + 1

----------------------------------------------------------------------------
\* C35: for every Coordinator and every state the chat handler passes to
\* its graph, the node route_to_persona chooses is one of the persona nodes
\* of that graph, also when the scenario has no persona 'elena'; a turn
\* that has left the router is at such a node.
C35_RouteTargetIsNode ==
    \A t \in turns :
        /\ t.stage = "graph" =>
              route_to_persona(t.gm, graph_router_node(t.state))
                 \in persona_routes(t.gm)
        /\ t.stage # "graph" => t.target \in persona_routes(t.gm)

\* A turn of a game whose scenario has no persona 'elena' has been routed.
C35_Witness ==
    \E t \in turns :
       /\ t.stage = "llm"
       /\ "elena" \notin persona_routes(t.gm)
       /\ t.target = "robert"

----------------------------------------------------------------------------
\* C36: in every scenario the generator returns, the persona generated with
\* the murderer instructions, the one whose blueprint has is_murderer =
\* TRUE, is exactly the persona whose slug is the scenario's murderer.
C36_MurdererInstructionsMatchSolution ==
    (gen # Absent /\ gen.stage = "returned"
        /\ gen.op \in {"async", "from_base"}) =>
        \A i \in DOMAIN gen.base.persona_blueprints :
            gen.base.persona_blueprints[i].is_murderer
               <=> gen.result.personas[i].slug = gen.result.murderer

----------------------------------------------------------------------------
\* C37: once a Phase 2 call has failed and the generator has gone on to its
\* next attempt, or has raised, no Phase 2 call of the failed attempt is
\* still running, and none records its timing or pushes its progress while
\* a later attempt is in progress or after generate_async has ended.
C37_NoCallOutlivesItsAttempt ==
    gen # Absent => (gen.stale = 0 /\ ~gen.late)

\* C38: with progress broadcasting on, the percentages pushed during
\* Phase 2 of one attempt never go down from one push to the next and lie
\* between 45 and 80, whatever the order in which the persona calls return.
C38_Phase2ProgressMonotone ==
    [][(/\ gen # Absent /\ gen' # Absent
        /\ gen.game_id # ""
        /\ gen.stage = "phase2"
        /\ gen'.stage \in {"phase2", "returned"}
        /\ gen'.attempts = gen.attempts) =>
            /\ gen.progress <= gen'.progress
            /\ gen'.progress \in base_progress..80]_vars

----------------------------------------------------------------------------
\* messages in PersonaAgent.invoke: the system prompt, the persona's
\* history, and the player's message (turn t awaits the model with them)
SystemMessage(content) == [type |-> "system", content |-> content]

LLMMessages(t) ==
    <<SystemMessage(t.stress_modifier)>>
       \o t.history
       \o <<HumanMessage(t.state.user_message)>>

\* C39: the message list an agent sends to the model holds the player's
\* current message exactly once, as its last human message.
C39_PlayerMessageOnce ==
    \A t \in turns : t.stage = "llm" =>
        LET messages == LLMMessages(t)
            current == HumanMessage(t.request.message)
        IN  /\ messages[Len(messages)] = current
            /\ Cardinality({i \in DOMAIN messages : messages[i] = current})
                  = 1

====
